---------------------------- MODULE Spec2Model ----------------------------
(***************************************************************************)
(* The CenturyLink Cloud machine driver                                    *)
(* (drivers/centurylinkcloud/centurylinkcloud.go) as a state machine.      *)
(*                                                                         *)
(* The driver is single-threaded: one driver call runs at a time, and it   *)
(* blocks at every request to the provider, every sleep and every remote   *)
(* shell command.  One action of the model is one such blocking point      *)
(* together with the local computation that follows it up to the next      *)
(* blocking point.  Every caller in the file hands an error straight to    *)
(* its own caller ("if err != nil { return err }"), so an error ends the    *)
(* driver call in the action that meets it; the one place that does not    *)
(* (doOperation, line 323) is modelled as written.                         *)
(*                                                                         *)
(* The provider (the clcgo client and the service behind it) and the       *)
(* remote shell are the environment: they answer each request from their   *)
(* own state, or with a fault, and asynchronous operations advance on      *)
(* their own between the driver's steps.                                   *)
(***************************************************************************)
EXTENDS Integers, Sequences, FiniteSets, TLC

(* ------------------------------ bounds -------------------------------- *)

\* Driver calls made in one behaviour.
MaxCalls == 2
\* Asynchronous operations the provider accepts in one behaviour.
MaxOps == 2
\* Status fetches of one poll loop that are counted (the count saturates).
MaxPolls == 2
\* Bearer tokens the provider issues in one behaviour.
MaxTokens == 2
\* Entries in a server's address list.
MaxAddrs == 2

(* ----------------------------- constants ------------------------------ *)

statusWaitSeconds == 10

\* The zero value of Driver.BearerToken (the empty string); issued tokens
\* are 1, 2, ...
NoToken == 0

\* The account alias the provider returns with a token.
Alias == "ACCT"

ServerIDs == {"s1", "s2"}

\* Public address values; "" is an address entry with no public value.
Publics == <<"ip1", "ip2", "ip3">>

Lifecycle == {"Start", "Stop", "Restart", "Kill"}
Queries == {"GetState", "GetIP", "GetURL"}
Calls == Lifecycle \cup Queries \cup {"Remove", "Create", "Upgrade"}

VARIABLES
    \* Driver fields
    BearerToken, AccountAlias, ServerID, Password,
    \* the driver call in progress: its name, Create's current step, the
    \* blocking point it is at, and its returned value and error
    call, step, pc, result,
    \* locals of the call in progress: the server s, the operation handle
    \* st, the exec.Cmd cmd
    s, st, cmd,
    \* the provider: valid tokens, number of tokens issued, servers,
    \* asynchronous operations
    valid, issued, servers, ops,
    \* history: requests of the call in progress with their answers; status
    \* fetches, seconds slept and not-yet-succeeded answers of the poll loop
    \* in progress; driver calls made; authentications that succeeded since
    \* the cached token was last invalidated
    log, fetches, slept, pendings, calls, auths,
    \* scripted answers (all "any" when the environment is free) and the
    \* record of the first of two compared runs
    oracle, twin

driverVars == <<BearerToken, AccountAlias, ServerID, Password>>
frameVars == <<call, step, pc, result, s, st, cmd>>
providerVars == <<valid, issued, servers, ops>>
histVars == <<log, fetches, slept, pendings, calls, auths>>
pairVars == <<oracle, twin>>
vars == <<driverVars, frameVars, providerVars, histVars, pairVars>>

(* ------------------------------ errors -------------------------------- *)

\* An error is a pair <<kind, detail>>.
Nil == <<"nil", "">>
RequestError(code) == <<"RequestError", code>>
TransportError == <<"transport", "">>

\* The error a faulty or refused request returns, by the answer's tag.
ErrOf(tag) ==
    CASE tag = "E401" -> RequestError("401")
      [] tag = "E404" -> RequestError("404")
      [] tag = "E500" -> RequestError("500")
      [] tag = "ioErr" -> TransportError
      [] tag = "stdin" -> <<"stdin", "">>
      [] OTHER -> Nil

\* err.(clcgo.RequestError) with StatusCode == code
IsRequestError(err, code) == err[1] = "RequestError" /\ err[2] = code

(* ------------------------- the environment ---------------------------- *)

\* Kinds of answer the environment chooses.
Kinds == {"GetEntity(DataCenters)", "GetAPICredentials", "GetEntity(Server)",
          "SaveEntity(ServerOperation)", "DeleteEntity(Server)",
          "SaveEntity(Server)", "SaveEntity(PublicIPAddress)",
          "GetEntity(Status)", "GetEntity(Credentials)", "ssh", "Run",
          "address"}

Free == [k \in Kinds |-> "any"]

\* The answers of kind k among S that the script allows.
Allowed(k, S) == IF oracle[k] = "any" THEN S ELSE S \cap {oracle[k]}

\* A request may fail in transport, or be refused by the provider for a
\* reason of its own.
Faults == {"ok", "ioErr", "E500"}

\* The answer to a request made with the client's token: the fault if there
\* is one, unauthorized if the provider no longer accepts the token,
\* otherwise what the provider's data says.
Answer(fault, token, fromData) ==
    IF fault # "ok" THEN fault
    ELSE IF token \notin valid THEN "E401"
    ELSE fromData

NoServer == [ID |-> "", active |-> FALSE, paused |-> FALSE, addrs |-> <<>>]
Absent == [exists |-> FALSE, active |-> FALSE, paused |-> FALSE, addrs |-> <<>>]

Exists(id) == id \in ServerIDs /\ servers[id].exists

\* What GetEntity(&s) fills in for server id.
Fetched(id) ==
    [ID |-> id, active |-> servers[id].active, paused |-> servers[id].paused,
     addrs |-> servers[id].addrs]

NoHandle == [op |-> 0, status |-> ""]
NoCmd == [made |-> FALSE, started |-> FALSE]
NoResult == [val |-> <<>>, err |-> Nil]

(* ------------------------- pure functions ----------------------------- *)

\* A HasSucceeded that takes every status but failure for success.
HasSucceeded_unlessFailed(status) == status.status # "failed"

\* clcgo.Status.HasSucceeded
HasSucceeded(status) == status.status = "succeeded"

RECURSIVE FirstPublic(_)
FirstPublic(addresses) ==
    IF addresses = <<>> THEN ""
    ELSE IF Head(addresses) # "" THEN Head(addresses)
    ELSE FirstPublic(Tail(addresses))

RECURSIVE LastPublic(_)
LastPublic(addresses) ==
    IF addresses = <<>> THEN ""
    ELSE IF LastPublic(Tail(addresses)) # "" THEN LastPublic(Tail(addresses))
    ELSE Head(addresses)

\* A scan that keeps the last public address it meets.
publicIPFromServer_last(srv) == LastPublic(srv.addrs)

\* publicIPFromServer, lines 352-361.
publicIPFromServer(srv) == FirstPublic(srv.addrs)

\* A GetState that tests IsPaused before IsActive.
GetStateOf_pausedFirst(srv) ==
    IF srv.paused THEN "Paused"
    ELSE IF srv.active THEN "Running"
    ELSE "Stopped"

\* GetState, after getServer succeeded.
GetStateOf(srv) ==
    IF srv.active THEN "Running"
    ELSE IF srv.paused THEN "Paused"
    ELSE "Stopped"

\* GetIP, after getServer succeeded: the value and the error.
GetIPOf(srv) ==
    IF publicIPFromServer(srv) # ""
    THEN [val |-> <<publicIPFromServer(srv)>>, err |-> Nil]
    ELSE [val |-> <<"">>, err |-> <<"no IP could be found for this server", "">>]

\* GetURL, from GetIP's result.
GetURLOf(ip) ==
    IF ip.err # Nil THEN [val |-> <<"">>, err |-> ip.err]
    ELSE [val |-> <<"tcp://", ip.val[1], ":2376">>, err |-> Nil]

\* What a driver call returns beside the error when it fails.
ErrorValue(c) ==
    CASE c = "GetState" -> <<"Error">>
      [] c \in {"GetIP", "GetURL"} -> <<"">>
      [] OTHER -> <<>>


\* logAndReturnError: logs the provider's field messages, returns the error.
logAndReturnError(err) == err

\* A getServer that returns GetEntity's error as it is.
getServerError_raw(err, id) == err

\* getServer's translation of GetEntity's error (lines 301-308).
getServerError(err, id) ==
    IF IsRequestError(err, "404")
    THEN <<"unable to find a server with the ID", id>>
    ELSE err

\* A getClientWithPersistence that authenticates on every error of the
\* probe.
ProbeVerdict_anyReauth(err) == IF err = Nil THEN "ok" ELSE "reauth"

\* A getClientWithPersistence that returns every error of the probe.
ProbeVerdict_noReauth(err) == IF err = Nil THEN "ok" ELSE "fail"

\* getClientWithPersistence's reading of the probe's error (lines 248-258):
\* "ok" returns the client, "reauth" calls updateAPICredentials, "fail"
\* returns the error.
ProbeVerdict(err) ==
    IF err = Nil THEN "ok"
    ELSE IF IsRequestError(err, "401") THEN "reauth"
    ELSE "fail"

\* What doOperation returns when SaveEntity fails (lines 322-325).
doOperationSaveError(err) == Nil

\* A Remove that returns nil when DeleteEntity fails.
RemoveDeleteError_nil(err) == Nil

\* What Remove returns when DeleteEntity fails (lines 130-133).
RemoveDeleteError(err) == err

\* An updateAPICredentials that empties the cache when it fails.
updateAPICredentialsStores_clears(err, token, alias) ==
    IF err # Nil
    THEN [BearerToken |-> NoToken, AccountAlias |-> ""]
    ELSE [BearerToken |-> token, AccountAlias |-> alias]

\* An updateAPICredentials that never stores the pair.
updateAPICredentialsStores_nothing(err, token, alias) ==
    [BearerToken |-> BearerToken, AccountAlias |-> AccountAlias]

\* The pair updateAPICredentials leaves in the driver (lines 279-283), given
\* GetAPICredentials' error and the pair the client then holds.
updateAPICredentialsStores(err, token, alias) ==
    IF err # Nil
    THEN [BearerToken |-> BearerToken, AccountAlias |-> AccountAlias]
    ELSE [BearerToken |-> token, AccountAlias |-> alias]

\* The operation type each lifecycle call hands to doOperation.
OperationType(c) ==
    CASE c = "Start" -> "PowerOnServer"
      [] c = "Stop" -> "PowerOffServer"
      [] c = "Restart" -> "RebootServer"
      [] c = "Kill" -> "PowerOffServer"

\* An addPublicIPAddress that returns nil when it finds no address.
NoIPError_nil == <<"nil", "">>

\* addPublicIPAddress, line 519.
NoIPError == <<"could not find an IP Address for the server", "">>

\* A counter of the poll loop; MaxPolls + 1 stands for "more than MaxPolls".
Inc(n) == IF n <= MaxPolls THEN n + 1 ELSE n

\* The seconds slept in a poll loop, counted as far as the fetches are.
SleepInc(t) ==
    IF t <= statusWaitSeconds * MaxPolls THEN t + statusWaitSeconds ELSE t

(* --------------------------- initial state ---------------------------- *)

NumPublic(l) == Cardinality({i \in DOMAIN l : l[i] # ""})

\* The provider hands out public addresses in order.
Extensions(l) ==
    {Append(l, "")} \cup
    (IF NumPublic(l) < Len(Publics)
     THEN {Append(l, Publics[NumPublic(l) + 1])} ELSE {})

RECURSIVE AddrListsOf(_)
AddrListsOf(n) ==
    IF n = 0 THEN {<<>>}
    ELSE LET prev == AddrListsOf(n - 1)
         IN  prev \cup UNION {Extensions(l) : l \in {x \in prev : Len(x) = n - 1}}

AddrLists == AddrListsOf(MaxAddrs)

\* Server s1 at the start: none, or a server in any activity state, or a
\* server with any address list.
InitServers ==
    {Absent} \cup
    [exists : {TRUE}, active : BOOLEAN, paused : BOOLEAN, addrs : {<<"">>}] \cup
    [exists : {TRUE}, active : {TRUE}, paused : {FALSE}, addrs : AddrLists]

\* No runs are being compared.
NoTwin == [run |-> 0, startID |-> "", startServers |-> <<>>,
           first |-> NoResult, firstLog |-> <<>>,
           firstToken |-> NoToken, firstAlias |-> ""]

\* The driver is built by NewDriver and its exported fields restored from
\* the machine's stored configuration: a token and an alias of an earlier
\* process (which the provider may no longer accept), and a server ID.
\* Password is not stored (json:"-"): it is empty until SetConfigFromFlags
\* sets it for Create.
InitDriver ==
    /\ BearerToken \in {NoToken, 1}
    /\ AccountAlias \in {"", Alias}
    /\ ServerID \in {"", "s1"}
    /\ Password = ""

InitFrame ==
    /\ call = ""
    /\ step = ""
    /\ pc = "idle"
    /\ result = NoResult
    /\ s = NoServer
    /\ st = NoHandle
    /\ cmd = NoCmd

InitProvider ==
    /\ issued = IF BearerToken = NoToken THEN 0 ELSE 1
    /\ valid \in SUBSET (1..issued)
    /\ \E cfg \in InitServers :
          servers = [id \in ServerIDs |-> IF id = "s1" THEN cfg ELSE Absent]
    /\ ops = <<>>

InitHist ==
    /\ log = <<>>
    /\ fetches = 0
    /\ slept = 0
    /\ pendings = 0
    /\ calls = 0
    /\ auths = 0

Init ==
    /\ InitDriver
    /\ InitFrame
    /\ InitProvider
    /\ InitHist
    /\ oracle = Free
    /\ twin = NoTwin

(* ------------------------- control transfer --------------------------- *)

\* The driver call returns.
Return(val, err) ==
    /\ pc' = "done"
    /\ result' = [val |-> val, err |-> err]

\* An error reaches the driver call's caller through the callers' returns.
Fail(err) == Return(ErrorValue(call), err)

Goto(label) ==
    /\ pc' = label
    /\ result' = result

\* A driver call starts.  Every call begins by getting a client: Create
\* directly (line 430), the others through getServer (line 294).  Create
\* follows SetConfigFromFlags, which sets Password from the flags (line
\* 65).
Invoke(op) ==
    /\ pc \in {"idle", "done"}
    /\ calls < MaxCalls
    /\ call' = op
    /\ step' = IF op = "Create" THEN "getClientWithPersistence" ELSE ""
    /\ pc' = "getClientWithPersistence"
    /\ result' = NoResult
    /\ s' = NoServer
    /\ st' = NoHandle
    /\ cmd' = NoCmd
    /\ log' = <<>>
    /\ fetches' = 0
    /\ slept' = 0
    /\ pendings' = 0
    /\ calls' = calls + 1
    /\ IF op = "Create"
       THEN Password' \in {"", "secret"}
       ELSE Password' = Password
    /\ UNCHANGED <<BearerToken, AccountAlias, ServerID, providerVars, auths,
                   pairVars>>

(* --------------------- getClientWithPersistence ----------------------- *)

\* getClientWithPersistence returned (c, nil) to Create or to getServer.
ReturnClient ==
    IF call = "Create" /\ step = "getClientWithPersistence"
    THEN Goto("createServer_SaveEntity") /\ step' = "createServer"
    ELSE Goto("getServer") /\ step' = step

getClientWithPersistence ==
    /\ pc = "getClientWithPersistence"
    /\ IF BearerToken = NoToken \/ AccountAlias = ""
       THEN /\ Goto("updateAPICredentials")
            /\ UNCHANGED <<step, log>>
       ELSE \E f \in Allowed("GetEntity(DataCenters)", Faults) :
              LET a == Answer(f, BearerToken, "ok")
                  verdict == ProbeVerdict(ErrOf(a))
              IN  /\ log' = Append(log, <<step, "GetEntity(DataCenters)", a>>)
                  /\ IF verdict = "ok" THEN ReturnClient
                     ELSE IF verdict = "reauth"
                     THEN Goto("updateAPICredentials") /\ step' = step
                     ELSE Fail(ErrOf(a)) /\ step' = step
    /\ UNCHANGED <<driverVars, call, s, st, cmd, providerVars,
                   fetches, slept, pendings, calls, auths, pairVars>>

\* The answers to updateAPICredentials: reading the password from the
\* terminal may fail when none was given ("stdin", logged in the place of
\* the exchange it prevents); the exchange may fail in transport or be
\* refused; otherwise the provider issues a token.
AuthAnswers ==
    (IF Password = "" THEN {"stdin"} ELSE {}) \cup {"ioErr", "E401"} \cup
    (IF issued < MaxTokens THEN {"ok"} ELSE {})

updateAPICredentials ==
    /\ pc = "updateAPICredentials"
    /\ \E a \in Allowed("GetAPICredentials", AuthAnswers) :
         LET stored == updateAPICredentialsStores(ErrOf(a), issued + 1, Alias)
         IN  /\ log' = Append(log, <<step, "GetAPICredentials", a>>)
             /\ BearerToken' = stored.BearerToken
             /\ AccountAlias' = stored.AccountAlias
             /\ IF a = "ok"
                THEN /\ issued' = issued + 1
                     /\ valid' = {issued + 1}
                     /\ auths' = auths + 1
                     /\ ReturnClient
                ELSE /\ UNCHANGED <<issued, valid, auths>>
                     /\ Fail(ErrOf(a))
                     /\ step' = step
    /\ UNCHANGED <<ServerID, Password, call, s, st, cmd, servers, ops,
                   fetches, slept, pendings, calls, pairVars>>

(* ----------------------------- getServer ------------------------------ *)

\* GetSSHCommand returned a command to Upgrade, setHostname or
\* installDocker.
RunLabel ==
    CASE call = "Upgrade" -> "Upgrade_Run"
      [] step = "setHostname" -> "setHostname_Run"
      [] OTHER -> "installDocker_Run"

\* getServer returned (c, srv, nil) to its caller.
AfterGetServer(srv) ==
    CASE call = "GetState" ->
           Return(<<GetStateOf(srv)>>, Nil) /\ cmd' = cmd
      [] call = "GetIP" ->
           Return(GetIPOf(srv).val, GetIPOf(srv).err) /\ cmd' = cmd
      [] call = "GetURL" ->
           /\ Return(GetURLOf(GetIPOf(srv)).val, GetURLOf(GetIPOf(srv)).err)
           /\ cmd' = cmd
      [] call = "Remove" -> Goto("Remove_DeleteEntity") /\ cmd' = cmd
      [] call \in Lifecycle -> Goto("doOperation_SaveEntity") /\ cmd' = cmd
      [] OTHER ->
           IF GetIPOf(srv).err # Nil
           THEN Fail(GetIPOf(srv).err) /\ cmd' = cmd
           ELSE Goto(RunLabel) /\ cmd' = [made |-> TRUE, started |-> FALSE]

\* A getServer whose callers go on when it failed.
getServer_ignoresError ==
    /\ pc = "getServer"
    /\ \E f \in Allowed("GetEntity(Server)", Faults) :
         LET a == Answer(f, BearerToken,
                         IF Exists(ServerID) THEN "ok" ELSE "E404")
         IN  /\ log' = Append(log, <<step, "GetEntity(Server)", a>>)
             /\ IF a = "ok"
                THEN /\ s' = Fetched(ServerID)
                     /\ AfterGetServer(Fetched(ServerID))
                ELSE /\ s' = [NoServer EXCEPT !.ID = ServerID]
                     /\ AfterGetServer([NoServer EXCEPT !.ID = ServerID])
    /\ UNCHANGED <<driverVars, call, step, st, providerVars,
                   fetches, slept, pendings, calls, auths, pairVars>>

getServer ==
    /\ pc = "getServer"
    /\ \E f \in Allowed("GetEntity(Server)", Faults) :
         LET a == Answer(f, BearerToken,
                         IF Exists(ServerID) THEN "ok" ELSE "E404")
         IN  /\ log' = Append(log, <<step, "GetEntity(Server)", a>>)
             /\ IF a = "ok"
                THEN /\ s' = Fetched(ServerID)
                     /\ AfterGetServer(Fetched(ServerID))
                ELSE /\ s' = [NoServer EXCEPT !.ID = ServerID]
                     /\ Fail(getServerError(ErrOf(a), ServerID))
                     /\ cmd' = cmd
    /\ UNCHANGED <<driverVars, call, step, st, providerVars,
                   fetches, slept, pendings, calls, auths, pairVars>>

(* ---------------------------- submissions ---------------------------- *)

\* The provider accepts at most MaxOps operations in a behaviour.
SubmitFaults == IF Len(ops) < MaxOps THEN Faults ELSE Faults \ {"ok"}

\* The operation the provider queues for an accepted submission, and the
\* handle SaveEntity / DeleteEntity returns for it: the operation's place
\* and the status the provider gives a queued operation.
Queued(kind, target) == [kind |-> kind, target |-> target, status |-> "pending"]
NewHandle == [op |-> Len(ops) + 1, status |-> "pending"]

\* A loop head that leaves the loop on every terminal status.
LoopHead_onTerminal(handle, sleepLabel, exitLabel) ==
    IF handle.status \in {"succeeded", "failed"}
    THEN IF exitLabel = "done" THEN Return(<<>>, Nil) ELSE Goto(exitLabel)
    ELSE Goto(sleepLabel)

\* The head of every poll loop, "for !st.HasSucceeded()": leave the loop to
\* exit, or go to sleep.
LoopHead(handle, sleepLabel, exitLabel) ==
    IF HasSucceeded(handle)
    THEN IF exitLabel = "done" THEN Return(<<>>, Nil) ELSE Goto(exitLabel)
    ELSE Goto(sleepLabel)

\* time.Sleep(time.Second * statusWaitSeconds) in a poll loop.
PollSleep(sleepLabel, fetchLabel) ==
    /\ pc = sleepLabel
    /\ Goto(fetchLabel)
    /\ slept' = SleepInc(slept)
    /\ UNCHANGED <<driverVars, call, step, s, st, cmd, providerVars,
                   log, fetches, pendings, calls, auths, pairVars>>

\* A poll loop that goes on to its next round when a status fetch fails.
PollFetch_retries(fetchLabel, sleepLabel, exitLabel) ==
    /\ pc = fetchLabel
    /\ \E f \in Allowed("GetEntity(Status)", Faults) :
         LET a == Answer(f, BearerToken, "ok")
             seen == [st EXCEPT !.status = ops[st.op].status]
         IN  /\ fetches' = Inc(fetches)
             /\ IF a = "ok"
                THEN /\ st' = seen
                     /\ pendings' =
                          IF HasSucceeded(seen) THEN pendings ELSE Inc(pendings)
                     /\ LoopHead(seen, sleepLabel, exitLabel)
                     /\ log' = log
                ELSE /\ st' = st
                     /\ pendings' = pendings
                     /\ Goto(sleepLabel)
                     /\ log' = Append(log, <<step, "GetEntity(Status)", a>>)
    /\ UNCHANGED <<driverVars, call, step, s, cmd, providerVars,
                   slept, calls, auths, pairVars>>

\* c.GetEntity(&st) in a poll loop, and the loop's head after it.
PollFetch(fetchLabel, sleepLabel, exitLabel) ==
    /\ pc = fetchLabel
    /\ \E f \in Allowed("GetEntity(Status)", Faults) :
         LET a == Answer(f, BearerToken, "ok")
             seen == [st EXCEPT !.status = ops[st.op].status]
         IN  /\ fetches' = Inc(fetches)
             /\ IF a = "ok"
                THEN /\ st' = seen
                     /\ pendings' =
                          IF HasSucceeded(seen) THEN pendings ELSE Inc(pendings)
                     /\ LoopHead(seen, sleepLabel, exitLabel)
                     /\ log' = log
                ELSE /\ st' = st
                     /\ pendings' = pendings
                     /\ Fail(ErrOf(a))
                     /\ log' = Append(log, <<step, "GetEntity(Status)", a>>)
    /\ UNCHANGED <<driverVars, call, step, s, cmd, providerVars,
                   slept, calls, auths, pairVars>>

\* A submission that is made again when it fails.
Submit_retries(label, k, opKind, target, fromData, sleepLabel, exitLabel) ==
    /\ pc = label
    /\ \E f \in Allowed(k, SubmitFaults) :
         LET a == Answer(f, BearerToken, fromData)
         IN  /\ log' = Append(log, <<step, k, a>>)
             /\ IF a = "ok"
                THEN /\ ops' = Append(ops, Queued(opKind, target))
                     /\ st' = NewHandle
                     /\ LoopHead(NewHandle, sleepLabel, exitLabel)
                ELSE /\ UNCHANGED <<ops, st>>
                     /\ Goto(label)
    /\ fetches' = 0
    /\ slept' = 0
    /\ pendings' = 0
    /\ UNCHANGED <<driverVars, call, step, s, cmd, valid, issued, servers,
                   calls, auths, pairVars>>

\* A state-changing submission of kind k on target, which the provider's
\* data answers with fromData, followed by what the submitting function
\* does with its error, or by the head of its poll loop.
Submit(label, k, opKind, target, fromData, sleepLabel, exitLabel) ==
    /\ pc = label
    /\ \E f \in Allowed(k, SubmitFaults) :
         LET a == Answer(f, BearerToken, fromData)
         IN  /\ log' = Append(log, <<step, k, a>>)
             /\ IF a = "ok"
                THEN /\ ops' = Append(ops, Queued(opKind, target))
                     /\ st' = NewHandle
                     /\ LoopHead(NewHandle, sleepLabel, exitLabel)
                ELSE /\ UNCHANGED <<ops, st>>
                     /\ CASE k = "SaveEntity(ServerOperation)" ->
                               Return(<<>>, doOperationSaveError(ErrOf(a)))
                          [] k = "DeleteEntity(Server)" ->
                               Return(<<>>, RemoveDeleteError(ErrOf(a)))
                          [] OTHER ->
                               Return(<<>>, logAndReturnError(ErrOf(a)))
    /\ fetches' = 0
    /\ slept' = 0
    /\ pendings' = 0
    /\ UNCHANGED <<driverVars, call, step, s, cmd, valid, issued, servers,
                   calls, auths, pairVars>>

(* ----------------------- doOperation and Remove ----------------------- *)

doOperation_SaveEntity ==
    Submit("doOperation_SaveEntity", "SaveEntity(ServerOperation)",
           OperationType(call), s.ID, IF Exists(s.ID) THEN "ok" ELSE "E404",
           "doOperation_Sleep", "done")

doOperation_Sleep == PollSleep("doOperation_Sleep", "doOperation_GetEntity")

doOperation_GetEntity ==
    PollFetch("doOperation_GetEntity", "doOperation_Sleep", "done")

Remove_DeleteEntity ==
    Submit("Remove_DeleteEntity", "DeleteEntity(Server)", "delete", s.ID,
           IF Exists(s.ID) THEN "ok" ELSE "E404", "Remove_Sleep", "done")

Remove_Sleep == PollSleep("Remove_Sleep", "Remove_GetEntity")

Remove_GetEntity == PollFetch("Remove_GetEntity", "Remove_Sleep", "done")

(* ------------------------------- Create ------------------------------- *)

\* A Create that goes on when attaching the address failed.
CreateNext_pastAttach(stp, err) ==
    CASE stp = "addPublicIPAddress" -> "generateAndWriteSSHKey"
      [] err # Nil -> "return"
      [] stp = "createServer" -> "addPublicIPAddress"
      [] stp = "generateAndWriteSSHKey" -> "setHostname"
      [] stp = "setHostname" -> "installDocker"
      [] OTHER -> "return"

\* Create, lines 435-456: a step's error is returned at once; without one
\* the next step is called, and after the last Create returns nil.
CreateNext(stp, err) ==
    IF err # Nil THEN "return"
    ELSE CASE stp = "createServer" -> "addPublicIPAddress"
           [] stp = "addPublicIPAddress" -> "generateAndWriteSSHKey"
           [] stp = "generateAndWriteSSHKey" -> "setHostname"
           [] stp = "setHostname" -> "installDocker"
           [] OTHER -> "return"

\* The first blocking point of a step of Create: setHostname and
\* installDocker begin with GetSSHCommand, that is with getting a client.
StepEntry(stp) ==
    CASE stp = "addPublicIPAddress" -> "addPublicIPAddress_SaveEntity"
      [] stp = "generateAndWriteSSHKey" -> "generateAndWriteSSHKey_GetEntity"
      [] OTHER -> "getClientWithPersistence"

\* A step of Create returned err to Create.
StepReturns(err) ==
    LET nxt == CreateNext(step, err)
    IN  IF nxt = "return"
        THEN Return(<<>>, err) /\ step' = step
        ELSE Goto(StepEntry(nxt)) /\ step' = nxt

\* Identifiers the provider can give a new server: those of no server and
\* of no operation still under way (a creation, or an operation left
\* unresolved on a server since deleted).
FreeIDs ==
    {id \in ServerIDs :
        /\ ~servers[id].exists
        /\ \A i \in DOMAIN ops :
              ~(ops[i].target = id /\ ops[i].status = "pending")}

\* The provider assigns the first free identifier.
NewID == IF "s1" \in FreeIDs THEN "s1" ELSE "s2"

createServer_SaveEntity ==
    Submit("createServer_SaveEntity", "SaveEntity(Server)", "create", NewID,
           IF FreeIDs # {} THEN "ok" ELSE "E500",
           "createServer_Sleep", "createServer_GetEntity")

createServer_Sleep == PollSleep("createServer_Sleep", "createServer_GetStatus")

createServer_GetStatus ==
    PollFetch("createServer_GetStatus", "createServer_Sleep",
              "createServer_GetEntity")

\* A re-fetch of the server by Create's steps: the client's request for
\* server id (a 404 is not translated here).
Refetch(id) ==
    {Answer(f, BearerToken, IF Exists(id) THEN "ok" ELSE "E404") :
        f \in Allowed("GetEntity(Server)", Faults)}

\* A createServer that does not keep the identifier of the server.
createServer_GetEntity_forgetsID ==
    /\ pc = "createServer_GetEntity"
    /\ \E a \in Refetch(ops[st.op].target) :
         /\ log' = Append(log, <<step, "GetEntity(Server)", a>>)
         /\ IF a = "ok"
            THEN /\ s' = Fetched(ops[st.op].target)
                 /\ ServerID' = ServerID
                 /\ StepReturns(Nil)
            ELSE /\ UNCHANGED <<s, ServerID>>
                 /\ StepReturns(ErrOf(a))
    /\ UNCHANGED <<BearerToken, AccountAlias, Password, call, st, cmd,
                   providerVars, fetches, slept, pendings, calls, auths,
                   pairVars>>

\* createServer, lines 484-490: c.GetEntity(&s), d.ServerID = s.ID.
createServer_GetEntity ==
    /\ pc = "createServer_GetEntity"
    /\ \E a \in Refetch(ops[st.op].target) :
         /\ log' = Append(log, <<step, "GetEntity(Server)", a>>)
         /\ IF a = "ok"
            THEN /\ s' = Fetched(ops[st.op].target)
                 /\ ServerID' = ops[st.op].target
                 /\ StepReturns(Nil)
            ELSE /\ UNCHANGED <<s, ServerID>>
                 /\ StepReturns(ErrOf(a))
    /\ UNCHANGED <<BearerToken, AccountAlias, Password, call, st, cmd,
                   providerVars, fetches, slept, pendings, calls, auths,
                   pairVars>>

addPublicIPAddress_SaveEntity ==
    Submit("addPublicIPAddress_SaveEntity", "SaveEntity(PublicIPAddress)",
           "addPublicIP", s.ID, IF Exists(s.ID) THEN "ok" ELSE "E404",
           "addPublicIPAddress_Sleep", "addPublicIPAddress_GetEntity")

addPublicIPAddress_Sleep ==
    PollSleep("addPublicIPAddress_Sleep", "addPublicIPAddress_GetStatus")

addPublicIPAddress_GetStatus ==
    PollFetch("addPublicIPAddress_GetStatus", "addPublicIPAddress_Sleep",
              "addPublicIPAddress_GetEntity")

\* addPublicIPAddress, lines 514-524: c.GetEntity(s), publicIPFromServer.
addPublicIPAddress_GetEntity ==
    /\ pc = "addPublicIPAddress_GetEntity"
    /\ \E a \in Refetch(s.ID) :
         /\ log' = Append(log, <<step, "GetEntity(Server)", a>>)
         /\ IF a # "ok"
            THEN /\ s' = s
                 /\ StepReturns(ErrOf(a))
            ELSE /\ s' = Fetched(s.ID)
                 /\ IF publicIPFromServer(Fetched(s.ID)) = ""
                    THEN StepReturns(NoIPError)
                    ELSE StepReturns(Nil)
    /\ UNCHANGED <<driverVars, call, st, cmd, providerVars,
                   fetches, slept, pendings, calls, auths, pairVars>>

\* generateAndWriteSSHKey, lines 528-531: c.GetEntity(&cr).
generateAndWriteSSHKey_GetEntity ==
    /\ pc = "generateAndWriteSSHKey_GetEntity"
    /\ \E f \in Allowed("GetEntity(Credentials)", Faults) :
         LET a == Answer(f, BearerToken, IF Exists(s.ID) THEN "ok" ELSE "E404")
         IN  /\ log' = Append(log, <<step, "GetEntity(Credentials)", a>>)
             /\ IF a = "ok"
                THEN Goto("generateAndWriteSSHKey_SSH") /\ step' = step
                ELSE StepReturns(ErrOf(a))
    /\ UNCHANGED <<driverVars, call, s, st, cmd, providerVars,
                   fetches, slept, pendings, calls, auths, pairVars>>

\* The calls of generateAndWriteSSHKey that can fail, in order, lines
\* 537-574.
SSHKeySteps ==
    <<"WaitForTCP", "Dial", "NewSession", "GenerateSSHKey", "ReadFile", "Run">>

\* generateAndWriteSSHKey, lines 533-576: the first of its calls that fails
\* ends it; when none does, the key is in the server's authorized_keys and
\* Create goes on to setHostname (GetSSHCommand, GetIP, getServer).
generateAndWriteSSHKey_SSH ==
    /\ pc = "generateAndWriteSSHKey_SSH"
    /\ \E a \in Allowed("ssh", {"ok"} \cup {SSHKeySteps[i] : i \in DOMAIN SSHKeySteps}) :
         /\ log' = Append(log, <<step, "ssh", a>>)
         /\ StepReturns(IF a = "ok" THEN Nil ELSE <<"ssh", a>>)
    /\ UNCHANGED <<driverVars, call, s, st, cmd, providerVars,
                   fetches, slept, pendings, calls, auths, pairVars>>

(* ---------------------------- exec.Cmd.Run ---------------------------- *)

\* The answers to cmd.Run(): a Cmd that was started cannot be started
\* again; otherwise the remote command runs and succeeds or fails.
RunAnswers(c) ==
    IF c.started THEN {"started"} ELSE Allowed("Run", {"ok", "exit"})

RunError(a) ==
    CASE a = "ok" -> Nil
      [] a = "started" -> <<"exec: already started", "">>
      [] OTHER -> <<"exit status", "">>

\* cmd.Run() at label, logged under name; onOk is where a nil error leads.
Run(label, name, a) ==
    /\ pc = label
    /\ log' = Append(log, <<step, name, a>>)
    /\ cmd' = [cmd EXCEPT !.started = TRUE]
    /\ UNCHANGED <<driverVars, call, s, st, providerVars,
                   fetches, slept, pendings, calls, auths, pairVars>>

\* setHostname, lines 606-610; then installDocker (GetSSHCommand, GetIP,
\* getServer).
setHostname_Run ==
    \E a \in RunAnswers(cmd) :
        /\ Run("setHostname_Run", "Run(setHostname)", a)
        /\ StepReturns(RunError(a))

\* installDocker, lines 586-591; Create returns nil.
installDocker_Run ==
    \E a \in RunAnswers(cmd) :
        /\ Run("installDocker_Run", "Run(installDocker)", a)
        /\ StepReturns(RunError(a))

\* Upgrade, lines 218-221.
Upgrade_Run ==
    \E a \in RunAnswers(cmd) :
        /\ Run("Upgrade_Run", "Run(Upgrade)", a)
        /\ step' = step
        /\ IF RunError(a) # Nil THEN Fail(RunError(a))
           ELSE Goto("Upgrade_RunAgain")

\* Upgrade, line 223: return cmd.Run().
Upgrade_RunAgain ==
    \E a \in RunAnswers(cmd) :
        /\ Run("Upgrade_RunAgain", "Run(Upgrade)", a)
        /\ step' = step
        /\ Return(<<>>, RunError(a))

(* ---------------------------- the provider ---------------------------- *)

\* The server an operation leaves behind when it succeeds.
Effect(op, srv, addr) ==
    CASE op.kind = "create" ->
           [exists |-> TRUE, active |-> TRUE, paused |-> FALSE, addrs |-> <<"">>]
      [] ~srv.exists -> srv
      [] op.kind = "delete" -> Absent
      [] op.kind = "PowerOnServer" -> [srv EXCEPT !.active = TRUE, !.paused = FALSE]
      [] op.kind = "RebootServer" -> [srv EXCEPT !.active = TRUE, !.paused = FALSE]
      [] op.kind = "PowerOffServer" -> [srv EXCEPT !.active = FALSE, !.paused = FALSE]
      [] op.kind = "addPublicIP" ->
           IF addr = "public" /\ Len(srv.addrs) < MaxAddrs
              /\ NumPublic(srv.addrs) < Len(Publics)
           THEN [srv EXCEPT !.addrs = Append(@, Publics[NumPublic(@) + 1])]
           ELSE srv
      [] OTHER -> srv

\* An operation ends: it succeeds, with its effect on the server, or fails.
\* ("pending" stands for every status that is not terminal, queued or in
\* progress: the driver tells them apart nowhere.)  An attached address may
\* not show on the server yet.
ProviderAdvance(i) ==
    /\ i \in DOMAIN ops
    /\ ops[i].status = "pending"
    /\ \/ /\ ops' = [ops EXCEPT ![i].status = "failed"]
          /\ servers' = servers
       \/ /\ ops' = [ops EXCEPT ![i].status = "succeeded"]
          /\ \E addr \in Allowed("address", {"public", "none"}) :
               servers' = [servers EXCEPT ![ops[i].target] =
                              Effect(ops[i], @, addr)]
    /\ UNCHANGED <<driverVars, frameVars, valid, issued, histVars, pairVars>>

\* The provider stops accepting the cached token.  (A token the driver has
\* replaced is never presented again: valid keeps the last one issued.)
Expire(t) ==
    /\ t \in valid
    /\ t = BearerToken
    /\ valid' = valid \ {t}
    /\ auths' = 0
    /\ UNCHANGED <<driverVars, frameVars, issued, servers, ops,
                   log, fetches, slept, pendings, calls, pairVars>>

(* -------------------------- specification ----------------------------- *)

\* A step of the driver call in progress.
DriverStep ==
    \/ getClientWithPersistence
    \/ updateAPICredentials
    \/ getServer
    \/ doOperation_SaveEntity
    \/ doOperation_Sleep
    \/ doOperation_GetEntity
    \/ Remove_DeleteEntity
    \/ Remove_Sleep
    \/ Remove_GetEntity
    \/ createServer_SaveEntity
    \/ createServer_Sleep
    \/ createServer_GetStatus
    \/ createServer_GetEntity
    \/ addPublicIPAddress_SaveEntity
    \/ addPublicIPAddress_Sleep
    \/ addPublicIPAddress_GetStatus
    \/ addPublicIPAddress_GetEntity
    \/ generateAndWriteSSHKey_GetEntity
    \/ generateAndWriteSSHKey_SSH
    \/ setHostname_Run
    \/ installDocker_Run
    \/ Upgrade_Run
    \/ Upgrade_RunAgain

DriverNext ==
    \/ \E op \in Calls : Invoke(op)
    \/ DriverStep

ProviderNext ==
    \/ \E i \in 1..MaxOps : ProviderAdvance(i)
    \/ \E t \in 1..MaxTokens : Expire(t)

Next == DriverNext \/ ProviderNext

Spec == Init /\ [][Next]_vars

(* ====================================================================== *)
(*                             properties                                  *)
(* ====================================================================== *)

Last(seq) == seq[Len(seq)]

\* The request logged last was of kind k and was answered a.
LastRequest(k, a) == log # <<>> /\ Last(log)[2] = k /\ Last(log)[3] = a

\* The blocking points of the poll loops.
FetchLabels ==
    {"doOperation_GetEntity", "Remove_GetEntity", "createServer_GetStatus",
     "addPublicIPAddress_GetStatus"}

SleepLabels ==
    {"doOperation_Sleep", "Remove_Sleep", "createServer_Sleep",
     "addPublicIPAddress_Sleep"}

\* The call in progress is in a poll loop.
Polling == pc \in SleepLabels \cup FetchLabels

(* ------------------------------- C1 ----------------------------------- *)

\* C1: a lifecycle operation (Start, Stop, Restart, Kill) that resolved the
\* server and whose SaveEntity failed in transport returns a non-nil error.
\* (The code returns nil: doOperation, line 324.)
C1_SubmissionFailureReported ==
    (/\ pc = "done"
     /\ call \in Lifecycle
     /\ LastRequest("SaveEntity(ServerOperation)", "ioErr"))
    => result.err # Nil

(* ------------------------------- C2 ----------------------------------- *)

\* The wait of a poll loop on a handle from a successful submission has
\* just ended without error: doOperation or Remove returned nil, or
\* createServer or addPublicIPAddress is at the re-fetch after its loop.
WaitEndedWithoutError ==
    /\ st # NoHandle
    /\ \/ pc = "done" /\ call \in Lifecycle \cup {"Remove"} /\ result.err = Nil
       \/ pc \in {"createServer_GetEntity", "addPublicIPAddress_GetEntity"}

\* C2: in every poll loop the wait ends without error only when the status
\* of the operation observed last is terminal success, never while it is
\* pending, in progress or failed.
C2_WaitEndsOnlyOnSuccess ==
    WaitEndedWithoutError =>
        /\ st.status = "succeeded"
        /\ ops[st.op].status = "succeeded"

\* Remove waited through a status that was not success and returned nil.
C2_Witness ==
    /\ WaitEndedWithoutError
    /\ call = "Remove"
    /\ pendings >= 1
    /\ st.status = "succeeded"

(* ------------------------------- C3 ----------------------------------- *)

\* C3: a wait that saw N statuses short of success, then success, with no
\* fetch failing, made exactly N + 1 status fetches; every fetch follows
\* exactly one sleep of statusWaitSeconds since the fetch before it, or
\* since the submission.  (Counters are exact up to MaxPolls.)
C3_FetchesAndDelays ==
    /\ (WaitEndedWithoutError /\ fetches <= MaxPolls) =>
           /\ fetches = pendings + 1
           /\ slept = statusWaitSeconds * fetches
    /\ (pc \in FetchLabels /\ fetches <= MaxPolls) =>
           /\ fetches = pendings
           /\ slept = statusWaitSeconds * (fetches + 1)

\* A lifecycle operation saw one status short of success, then success:
\* two fetches, twenty seconds.
C3_Witness ==
    /\ WaitEndedWithoutError
    /\ call \in Lifecycle
    /\ pendings = 1
    /\ fetches = 2
    /\ slept = 2 * statusWaitSeconds

(* ------------------------------- C4 ----------------------------------- *)

IsProbe(e) == e[2] = "GetEntity(DataCenters)"
IsAuth(e) == e[2] = "GetAPICredentials"

\* C4: in lifecycle calls made after the cached pair was invalidated, at
\* most one re-authentication succeeds for as long as the new token is
\* not invalidated in turn; a re-authentication is the request right after
\* a probe answered 401 (or the call's first request, when nothing is
\* cached), so it precedes the server fetch and the submission; after it
\* succeeded exactly one has occurred; and a call whose probe succeeded
\* makes none.
C4_OneReauthentication ==
    /\ auths <= 1
    /\ call \in Lifecycle =>
          /\ \A i \in DOMAIN log :
                IsAuth(log[i]) =>
                   /\ i <= 2
                   /\ i = 2 => IsProbe(log[1]) /\ log[1][3] = "E401"
          /\ \A i \in DOMAIN log :
                (IsProbe(log[i]) /\ log[i][3] = "E401") =>
                   (i = 1 /\ (Len(log) >= 2 => IsAuth(log[2])))
          /\ (Len(log) >= 2 /\ IsAuth(log[2]) /\ log[2][3] = "ok"
              /\ BearerToken \in valid) => auths = 1
          /\ (log # <<>> /\ IsProbe(log[1]) /\ log[1][3] = "ok") =>
                \A i \in DOMAIN log : ~IsAuth(log[i])

\* The second of two calls is a lifecycle call that ended after its probe
\* succeeded with the token of a re-authentication, and made none itself.
C4_Witness ==
    /\ calls = 2
    /\ pc = "done"
    /\ call \in Lifecycle
    /\ BearerToken = 2
    /\ auths = 1
    /\ IsProbe(log[1]) /\ log[1][3] = "ok"
    /\ Len(log) >= 3

(* ------------------------------- C5 ----------------------------------- *)

\* Two runs of one call against one provider behaviour.  The behaviour is a
\* script: an answer for each kind of request the call can make.  The
\* probe is not faulted, so that the provider's answer to it is its
\* verdict on the cached token.
Scripts ==
    {[Free EXCEPT !["GetEntity(DataCenters)"] = "ok",
                  !["GetAPICredentials"] = auth,
                  !["GetEntity(Server)"] = fetch,
                  !["SaveEntity(ServerOperation)"] = save,
                  !["GetEntity(Status)"] = poll] :
        auth \in {"ok", "ioErr", "E401", "stdin"},
        fetch \in Faults, save \in Faults, poll \in Faults}

\* The first run starts in a process that restored a token and an alias
\* the provider no longer accepts, and is left one call to make.
PairInit ==
    /\ BearerToken = 1
    /\ AccountAlias = Alias
    /\ ServerID \in {"", "s1"}
    /\ Password = ""
    /\ InitFrame
    /\ issued = 1
    /\ valid = {}
    /\ \E cfg \in InitServers :
          servers = [id \in ServerIDs |-> IF id = "s1" THEN cfg ELSE Absent]
    /\ ops = <<>>
    /\ log = <<>>
    /\ fetches = 0
    /\ slept = 0
    /\ pendings = 0
    /\ calls = MaxCalls - 1
    /\ auths = 0
    /\ oracle \in Scripts
    /\ twin = [NoTwin EXCEPT !.run = 1, !.startID = ServerID,
                             !.startServers = servers]

\* The call of the runs compared: a lifecycle call or a query.
PairInvoke ==
    /\ twin.run = 1
    /\ \E op \in Lifecycle \cup Queries : Invoke(op)

\* The first run has returned: its outcome is recorded, and the same call
\* starts on a driver with nothing cached, against the provider as it was
\* when the first run started.
Rerun ==
    /\ twin.run = 1
    /\ pc = "done"
    /\ twin' = [twin EXCEPT !.run = 2, !.first = result, !.firstLog = log,
                            !.firstToken = BearerToken,
                            !.firstAlias = AccountAlias]
    /\ BearerToken' = NoToken
    /\ AccountAlias' = ""
    /\ ServerID' = twin.startID
    /\ pc' = "getClientWithPersistence"
    /\ result' = NoResult
    /\ s' = NoServer
    /\ st' = NoHandle
    /\ cmd' = NoCmd
    /\ issued' = 1
    /\ valid' = {}
    /\ servers' = twin.startServers
    /\ ops' = <<>>
    /\ log' = <<>>
    /\ fetches' = 0
    /\ slept' = 0
    /\ pendings' = 0
    /\ auths' = 0
    /\ UNCHANGED <<Password, call, step, calls, oracle>>

\* The steps of lifecycle calls and queries.
PairStep ==
    \/ getClientWithPersistence
    \/ updateAPICredentials
    \/ getServer
    \/ doOperation_SaveEntity
    \/ doOperation_Sleep
    \/ doOperation_GetEntity

PairNext ==
    \/ PairInvoke
    \/ PairStep
    \/ \E i \in 1..MaxOps : ProviderAdvance(i)
    \/ Rerun

PairSpec == PairInit /\ [][PairNext]_vars

\* Both runs have returned.
BothDone == twin.run = 2 /\ pc = "done"

\* The requests of a run after the credential was established: after the
\* authentication, which the first run makes second and the other first.
AfterEstablished(l) ==
    IF l # <<>> /\ IsProbe(l[1]) THEN SubSeq(l, 3, Len(l))
    ELSE SubSeq(l, 2, Len(l))

\* C5 (as the specification states it): a run that starts with a cached
\* credential the probe rejects and a run that starts with none return
\* the same value and error, make the same requests once the credential
\* is established, and leave the same cached token and alias.
C5_TwoRunEquivalence ==
    BothDone =>
        /\ result = twin.first
        /\ AfterEstablished(log) = AfterEstablished(twin.firstLog)
        /\ BearerToken = twin.firstToken
        /\ AccountAlias = twin.firstAlias

\* C5 (amended): the two runs return the same value and error and make the
\* same requests once the credential is established; they leave the same
\* cached token and alias when the authentication succeeded, and when it
\* failed each run is left with what it started with, the rejected pair
\* and no pair.
C5_TwoRunEquivalenceWhenAuthenticated ==
    BothDone =>
        /\ result = twin.first
        /\ AfterEstablished(log) = AfterEstablished(twin.firstLog)
        /\ Len(twin.firstLog) >= 2 /\ Len(log) >= 1
        /\ IsProbe(twin.firstLog[1]) /\ twin.firstLog[1][3] = "E401"
        /\ IsAuth(twin.firstLog[2]) /\ IsAuth(log[1])
        /\ log[1][3] = twin.firstLog[2][3]
        /\ IF log[1][3] = "ok"
           THEN /\ BearerToken = twin.firstToken
                /\ AccountAlias = twin.firstAlias
                /\ BearerToken \in valid
           ELSE /\ twin.firstToken = 1 /\ twin.firstAlias = Alias
                /\ BearerToken = NoToken /\ AccountAlias = ""
                /\ result.err # Nil

\* Both runs of a lifecycle call re-authenticated, waited for the
\* operation and returned nil, with the same new token cached.
C5_Witness ==
    /\ BothDone
    /\ call \in Lifecycle
    /\ result = twin.first
    /\ result.err = Nil
    /\ st.status = "succeeded"
    /\ Len(log) = 3
    /\ BearerToken = twin.firstToken
    /\ BearerToken \in valid

(* ------------------------------- C6 ----------------------------------- *)

NotFoundError(id) == <<"unable to find a server with the ID", id>>

\* getServer's fetch has just been answered for an identifier the provider
\* has no server for.
ResolvedAbsent == pc = "getServer" /\ ~Exists(ServerID) /\ pc' # pc

\* C6 (as the specification states it): with a client the provider accepts,
\* resolving an identifier that is not in the provider's data yields the
\* not-found error carrying it, never the raw provider or transport error
\* and never a success.
C6_AbsentIsNotFound ==
    [][(ResolvedAbsent /\ BearerToken \in valid) =>
          (pc' = "done" /\ result'.err = NotFoundError(ServerID))]_vars

\* C6 (amended): resolving an identifier that is not in the provider's data
\* never succeeds, and yields the not-found error carrying it when the
\* provider answers the fetch not found (404); a fetch that fails
\* otherwise returns that failure.
C6_AbsentIsNotFoundWhenAnswered ==
    [][ResolvedAbsent =>
          /\ pc' = "done"
          /\ result'.err # Nil
          /\ result'.val = ErrorValue(call)
          /\ IF Last(log')[3] = "E404"
             THEN result'.err = NotFoundError(ServerID)
             ELSE result'.err = ErrOf(Last(log')[3])]_vars

\* GetState ended on the not-found error for the driver's identifier.
C6_Witness ==
    /\ pc = "done"
    /\ call = "GetState"
    /\ ~Exists(ServerID)
    /\ LastRequest("GetEntity(Server)", "E404")
    /\ result.err = NotFoundError(ServerID)

(* ------------------------------- C7 ----------------------------------- *)

\* The steps of Create in the order the specification gives them, after
\* getting the client.
CreateSteps ==
    <<"getClientWithPersistence", "createServer", "addPublicIPAddress",
      "generateAndWriteSSHKey", "setHostname", "installDocker">>

Rank(stp) == CHOOSE i \in DOMAIN CreateSteps : CreateSteps[i] = stp

\* A logged request failed its step: every answer but "ok" does, except
\* the probe's 401, which getClientWithPersistence answers by
\* authenticating.
Failed(e) == e[3] # "ok" /\ ~(IsProbe(e) /\ e[3] = "E401")

\* The error a failed request gives the step that made it.
FailureOf(e) ==
    CASE e[2] = "ssh" -> <<"ssh", e[3]>>
      [] e[2] \in {"Run(setHostname)", "Run(installDocker)"} -> RunError(e[3])
      [] e[2] = "GetEntity(Server)" /\ e[3] = "E404"
         /\ e[1] \in {"setHostname", "installDocker"} -> NotFoundError(ServerID)
      [] OTHER -> ErrOf(e[3])

\* C7: Create runs create server, attach address, establish trust, set
\* hostname, install runtime in this order, none skipped; a step starts
\* only after the step before it ended in success; a failed request is the
\* last thing Create does and Create returns its error (the first error);
\* when attaching the address fails, by a failed request or by finding no
\* address, nothing of the later steps has run.
C7_CreateOrder ==
    call = "Create" =>
        /\ \A i \in 1..(Len(log) - 1) :
              /\ Rank(log[i][1]) <= Rank(log[i + 1][1])
              /\ Rank(log[i + 1][1]) <= Rank(log[i][1]) + 1
              /\ ~Failed(log[i])
              /\ log[i + 1][1] # log[i][1] => log[i][3] = "ok"
        /\ step = "generateAndWriteSSHKey" => publicIPFromServer(s) # ""
        /\ step \in {"addPublicIPAddress", "generateAndWriteSSHKey"} =>
              ServerID = s.ID
        /\ Rank(step) >= Rank("addPublicIPAddress") => ServerID \in ServerIDs
        /\ log # <<>> =>
              /\ Rank(Last(log)[1]) <= Rank(step)
              /\ Rank(step) <= Rank(Last(log)[1]) + 1
              /\ step # Last(log)[1] => Last(log)[3] = "ok"
        /\ (pc = "done" /\ log # <<>>) =>
              /\ step = Last(log)[1]
              /\ IF Failed(Last(log)) THEN result.err = FailureOf(Last(log))
                 ELSE IF step = "addPublicIPAddress"
                 THEN result.err = NoIPError
                 ELSE /\ Last(log) =
                           <<"installDocker", "Run(installDocker)", "ok">>
                      /\ result.err = Nil
        /\ (pc = "done" /\ step = "addPublicIPAddress") =>
              /\ result.err # Nil
              /\ cmd = NoCmd
              /\ \A i \in DOMAIN log :
                    Rank(log[i][1]) <= Rank("addPublicIPAddress")

\* Create made its server, then failed to attach the address, and
\* returned that failure with no later step begun.
C7_Witness ==
    /\ call = "Create"
    /\ pc = "done"
    /\ step = "addPublicIPAddress"
    /\ ServerID = s.ID
    /\ Exists(s.ID)
    /\ result.err = NoIPError
    /\ cmd = NoCmd

(* ------------------------------- C8 ----------------------------------- *)

\* GetIP (GetState) has returned and its getServer had succeeded.
Resolved(c) ==
    pc = "done" /\ call = c /\ LastRequest("GetEntity(Server)", "ok")

\* C8: GetIP on a resolved server returns the first address of the
\* server's list whose public value is not empty; when there is none it
\* returns the error, and never an empty string with a nil error.
C8_FirstPublicAddress ==
    Resolved("GetIP") =>
        /\ \A i \in DOMAIN s.addrs :
              (s.addrs[i] # "" /\ \A j \in 1..(i - 1) : s.addrs[j] = "") =>
                  result = [val |-> <<s.addrs[i]>>, err |-> Nil]
        /\ (\A i \in DOMAIN s.addrs : s.addrs[i] = "") =>
              (result.err = <<"no IP could be found for this server", "">>
               /\ result.val = <<"">>)
        /\ ~(result.val = <<"">> /\ result.err = Nil)

\* GetIP returned the second address of a list whose first is private.
C8_Witness ==
    /\ Resolved("GetIP")
    /\ Len(s.addrs) = 2
    /\ s.addrs[1] = ""
    /\ s.addrs[2] # ""
    /\ result = [val |-> <<s.addrs[2]>>, err |-> Nil]

(* ------------------------------- C9 ----------------------------------- *)

\* C9: GetState returns running for an active server, paused for one that
\* is not active but paused, stopped otherwise; when resolution fails it
\* returns the error state with a non-nil error.
C9_StateMapping ==
    (pc = "done" /\ call = "GetState") =>
        IF LastRequest("GetEntity(Server)", "ok")
        THEN /\ result.err = Nil
             /\ s.active => result.val = <<"Running">>
             /\ (~s.active /\ s.paused) => result.val = <<"Paused">>
             /\ (~s.active /\ ~s.paused) => result.val = <<"Stopped">>
        ELSE /\ result.err # Nil
             /\ result.val = <<"Error">>

\* GetState returned paused for a server that is paused and not active.
C9_Witness ==
    /\ Resolved("GetState")
    /\ ~s.active
    /\ s.paused
    /\ result = [val |-> <<"Paused">>, err |-> Nil]

(* ------------------------------- C10 ---------------------------------- *)

\* A process whose restored token the provider accepts and whose machine
\* has a running server with a public address.
FairInit ==
    /\ BearerToken = 1
    /\ AccountAlias = Alias
    /\ ServerID = "s1"
    /\ Password = ""
    /\ InitFrame
    /\ issued = 1
    /\ valid = {1}
    /\ servers = [id \in ServerIDs |->
                    IF id = "s1"
                    THEN [exists |-> TRUE, active |-> TRUE, paused |-> FALSE,
                          addrs |-> <<"ip1">>]
                    ELSE Absent]
    /\ ops = <<>>
    /\ InitHist
    /\ oracle = Free
    /\ twin = NoTwin

\* The driver is one thread that nothing suspends: the call in progress
\* takes its next step (a sleep ends, a request is answered).
FairSpec == FairInit /\ [][Next]_vars /\ WF_vars(DriverStep)

\* C10 (as the specification states it): a wait whose operation has reached
\* a terminal status, succeeded or failed, and whose status fetches keep
\* succeeding, comes to an end: the waiting call leaves its poll loop.
C10_WaitEndsOnTerminal ==
    (Polling /\ ops[st.op].status \in {"succeeded", "failed"}) ~> ~Polling

(* ------------------------------- C11 ---------------------------------- *)

\* The operations submitted for server id that have neither succeeded nor
\* failed.
Unresolved(id) ==
    {i \in DOMAIN ops : ops[i].target = id /\ ops[i].status = "pending"}

\* C11 (as the specification states it): over any sequence of driver calls
\* at most one operation submitted for a server is unresolved at a time.
\* (The driver keeps no operation from one call to the next: a call whose
\* status fetch failed leaves its operation unresolved, and the next call
\* submits another.)
C11_OneOutstandingOperation ==
    \A id \in ServerIDs : Cardinality(Unresolved(id)) <= 1

(* ------------------------------- C12 ---------------------------------- *)

\* A status fetch is in the log only when it failed.
IsFailedFetch(e) == e[2] = "GetEntity(Status)"

\* C12: in every poll loop the first status fetch that fails ends the
\* wait: the call has returned that fetch's error, the failed fetch is the
\* last request of the call, and no sleep followed it (as many sleeps as
\* fetches, counted up to MaxPolls).
C12_FailedFetchEndsWait ==
    \A i \in DOMAIN log :
        IsFailedFetch(log[i]) =>
            /\ i = Len(log)
            /\ log[i][3] # "ok"
            /\ pc = "done"
            /\ result.err = ErrOf(log[i][3])
            /\ result.err # Nil
            /\ st # NoHandle
            /\ fetches >= 1
            /\ fetches <= MaxPolls => slept = statusWaitSeconds * fetches

\* Remove's second status fetch failed in transport after a first one
\* that saw the deletion unfinished, and Remove returned that error.
C12_Witness ==
    /\ pc = "done"
    /\ call = "Remove"
    /\ LastRequest("GetEntity(Status)", "ioErr")
    /\ fetches = 2
    /\ pendings = 1
    /\ result.err = TransportError

(* ------------------------------- C13 ---------------------------------- *)

\* C13: getClientWithPersistence with a token and an alias cached issues
\* the probe, and when the probe fails with anything but a 401 the call
\* returns that error, authenticates nothing and keeps the cached token
\* and alias; with the token or the alias missing it goes to authenticate
\* without a probe.
C13_ProbeFailurePropagates ==
    [][(pc = "getClientWithPersistence" /\ pc' # pc) =>
          IF BearerToken = NoToken \/ AccountAlias = ""
          THEN pc' = "updateAPICredentials" /\ log' = log
          ELSE /\ Len(log') = Len(log) + 1
               /\ IsProbe(Last(log'))
               /\ Last(log')[3] \notin {"ok", "E401"} =>
                     /\ pc' = "done"
                     /\ result'.err = ErrOf(Last(log')[3])
                     /\ result'.err # Nil
                     /\ BearerToken' = BearerToken
                     /\ AccountAlias' = AccountAlias
                     /\ auths' = auths
                     /\ issued' = issued]_vars

\* A call ended on the probe's error 500, its only request, with the
\* cached token and alias as they were.
C13_Witness ==
    /\ pc = "done"
    /\ Len(log) = 1
    /\ LastRequest("GetEntity(DataCenters)", "E500")
    /\ result.err = RequestError("500")
    /\ BearerToken = 1
    /\ AccountAlias = Alias

(* ------------------------------- C14 ---------------------------------- *)

\* The provider created server id for an operation that succeeded.
Created(id) ==
    \E i \in DOMAIN ops :
        ops[i].kind = "create" /\ ops[i].target = id
        /\ ops[i].status = "succeeded"

\* C14: Create rolls nothing back.  Once its create step has succeeded,
\* whatever happens in the later steps, Create has submitted no delete
\* request, the created server exists at the provider, and the driver's
\* ServerID is the identifier the provider gave it, which later calls
\* resolve.
C14_NoRollback ==
    (call = "Create" /\ Rank(step) >= Rank("addPublicIPAddress")) =>
        /\ \A i \in DOMAIN log : log[i][2] # "DeleteEntity(Server)"
        /\ ServerID \in ServerIDs
        /\ Created(ServerID)
        /\ Exists(ServerID)
        /\ \A i \in DOMAIN ops :
              (ops[i].kind = "delete" /\ ops[i].target = ServerID) =>
                  \E j \in (i + 1)..Len(ops) :
                      ops[j].kind = "create" /\ ops[j].target = ServerID

\* Create failed while establishing trust, after its server was created
\* and its address attached; the server is there under the stored
\* identifier.
C14_Witness ==
    /\ call = "Create"
    /\ pc = "done"
    /\ step = "generateAndWriteSSHKey"
    /\ result.err # Nil
    /\ Created(ServerID)
    /\ Exists(ServerID)
    /\ publicIPFromServer(Fetched(ServerID)) # ""

(* ------------------------------- C15 ---------------------------------- *)

\* The state-changing requests.
Submissions ==
    {"SaveEntity(ServerOperation)", "DeleteEntity(Server)",
     "SaveEntity(Server)", "SaveEntity(PublicIPAddress)"}

\* The requests of kind k the call in progress has made.
Count(k) == Cardinality({i \in DOMAIN log : log[i][2] = k})

\* C15: no submission is made again.  A lifecycle call makes at most one
\* SaveEntity of an operation and no other submission, Remove at most one
\* DeleteEntity and no other submission, Create at most one SaveEntity of
\* a server and at most one of an address and no other submission,
\* whatever the answers.
C15_NoRetry ==
    /\ \A k \in Submissions : Count(k) <= 1
    /\ call \in Lifecycle =>
          \A k \in Submissions \ {"SaveEntity(ServerOperation)"} : Count(k) = 0
    /\ call = "Remove" =>
          \A k \in Submissions \ {"DeleteEntity(Server)"} : Count(k) = 0
    /\ call = "Create" =>
          /\ Count("SaveEntity(ServerOperation)") = 0
          /\ Count("DeleteEntity(Server)") = 0
          /\ Count("SaveEntity(PublicIPAddress)") = 1 =>
                Count("SaveEntity(Server)") = 1

\* Create made its server and had the attachment of the address refused:
\* one submission of each, and Create returned.
C15_Witness ==
    /\ call = "Create"
    /\ pc = "done"
    /\ Count("SaveEntity(Server)") = 1
    /\ Count("SaveEntity(PublicIPAddress)") = 1
    /\ LastRequest("SaveEntity(PublicIPAddress)", "E500")
    /\ result.err = RequestError("500")

(* ------------------------------- C16 ---------------------------------- *)

\* C16: Remove resolves, then submits, then polls.  The delete request
\* directly follows a successful fetch of the server; a delete request
\* that failed is Remove's last request, and Remove has returned its
\* error without a sleep or a status fetch; Remove returns nil only with
\* the delete operation seen succeeded.
C16_RemoveShape ==
    call = "Remove" =>
        /\ \A i \in DOMAIN log :
              log[i][2] = "DeleteEntity(Server)" =>
                  /\ i >= 2
                  /\ log[i - 1][2] = "GetEntity(Server)"
                  /\ log[i - 1][3] = "ok"
                  /\ s.ID = ServerID
                  /\ log[i][3] # "ok" =>
                        /\ i = Len(log)
                        /\ pc = "done"
                        /\ result.err = ErrOf(log[i][3])
                        /\ result.err # Nil
                        /\ st = NoHandle
                        /\ fetches = 0
                        /\ slept = 0
        /\ pc \in {"Remove_Sleep", "Remove_GetEntity"} =>
              LastRequest("DeleteEntity(Server)", "ok")
        /\ (pc = "done" /\ result.err = Nil) =>
              /\ LastRequest("DeleteEntity(Server)", "ok")
              /\ st.status = "succeeded"
              /\ ops[st.op] = [kind |-> "delete", target |-> ServerID,
                                status |-> "succeeded"]
              /\ fetches >= 1

\* Remove resolved its server, had the delete request fail in transport,
\* and returned that error with nothing queued.
C16_Witness ==
    /\ call = "Remove"
    /\ pc = "done"
    /\ LastRequest("DeleteEntity(Server)", "ioErr")
    /\ result.err = TransportError
    /\ st = NoHandle
    /\ Exists(ServerID)

(* ------------------------------- C17 ---------------------------------- *)

\* The re-fetch of the server that ends addPublicIPAddress, answered.
AttachRefetch == <<"addPublicIPAddress", "GetEntity(Server)", "ok">>

\* C17: when the attach operation has succeeded and the server fetched
\* again has no public address, addPublicIPAddress fails with its error
\* and Create returns it; Create is past that step only with a server
\* fetched again that has a public address.
C17_AttachNeedsAddress ==
    call = "Create" =>
        /\ (pc = "done" /\ log # <<>> /\ Last(log) = AttachRefetch) =>
              /\ step = "addPublicIPAddress"
              /\ ops[st.op].kind = "addPublicIP"
              /\ st.status = "succeeded"
              /\ \A i \in DOMAIN s.addrs : s.addrs[i] = ""
              /\ result.err = NoIPError
              /\ result.err # Nil
        /\ Rank(step) > Rank("addPublicIPAddress") =>
              \E i \in DOMAIN log : log[i] = AttachRefetch
        /\ step = "generateAndWriteSSHKey" =>
              \E i \in DOMAIN s.addrs : s.addrs[i] # ""

\* The attach operation succeeded, the server fetched again shows no
\* public address, and Create returned the error.
C17_Witness ==
    /\ call = "Create"
    /\ pc = "done"
    /\ Last(log) = AttachRefetch
    /\ ops[st.op].kind = "addPublicIP"
    /\ ops[st.op].status = "succeeded"
    /\ publicIPFromServer(s) = ""
    /\ result.err = NoIPError

(* ------------------------------- C18 ---------------------------------- *)

\* C18: an authentication that fails leaves the cached token and alias as
\* they were; the call returns the authentication's error, and the failed
\* authentication is its last request: no fetch and no submission follow.
C18_FailedAuthKeepsCache ==
    /\ [][(pc = "updateAPICredentials" /\ pc' # pc
           /\ Last(log')[3] # "ok") =>
             /\ IsAuth(Last(log'))
             /\ BearerToken' = BearerToken
             /\ AccountAlias' = AccountAlias
             /\ pc' = "done"
             /\ result'.err = ErrOf(Last(log')[3])
             /\ result'.err # Nil
             /\ ops' = ops]_vars
    /\ [](\A i \in DOMAIN log :
             (IsAuth(log[i]) /\ log[i][3] # "ok") =>
                 (i = Len(log) /\ pc = "done" /\ result.err # Nil))

\* A call whose probe was answered 401 had its authentication refused,
\* and returned that error with the rejected token and alias still cached.
C18_Witness ==
    /\ pc = "done"
    /\ Len(log) = 2
    /\ LastRequest("GetAPICredentials", "E401")
    /\ result.err = RequestError("401")
    /\ BearerToken = 1
    /\ AccountAlias = Alias

(* ------------------------------- C19 ---------------------------------- *)

\* The requests of the resolution step: the probe, the authentication and
\* the fetch of the server.
ResolutionRequests ==
    {"GetEntity(DataCenters)", "GetAPICredentials", "GetEntity(Server)"}

\* C19: the provider is given an operation only by a call that is not a
\* query, and by a lifecycle call or Remove only right after its fetch of
\* the server succeeded; GetState, GetIP and GetURL make no submission;
\* a lifecycle call or Remove whose resolution failed (authentication,
\* not found, transport) has made no submission and returns an error.
C19_NoChangeWithoutResolution ==
    /\ [][Len(ops') > Len(ops) =>
             /\ call \notin Queries
             /\ call \in Lifecycle \cup {"Remove"} =>
                   (LastRequest("GetEntity(Server)", "ok")
                    /\ s.ID = ServerID
                    /\ Last(ops').target = ServerID)]_vars
    /\ [](call \in Queries => \A k \in Submissions : Count(k) = 0)
    /\ [](call \in Lifecycle \cup {"Remove"} =>
             \A i \in DOMAIN log :
                /\ log[i][2] \in Submissions =>
                      /\ i >= 2
                      /\ log[i - 1][2] = "GetEntity(Server)"
                      /\ log[i - 1][3] = "ok"
                /\ (log[i][2] \in ResolutionRequests /\ Failed(log[i])) =>
                      /\ i = Len(log)
                      /\ pc = "done"
                      /\ result.err # Nil
                      /\ \A k \in Submissions : Count(k) = 0)

\* Stop found no server under its identifier and returned the not-found
\* error; the provider was given no operation.
C19_Witness ==
    /\ call = "Stop"
    /\ pc = "done"
    /\ LastRequest("GetEntity(Server)", "E404")
    /\ result.err = NotFoundError(ServerID)
    /\ ops = <<>>

(* ------------------------------- C20 ---------------------------------- *)

\* C20 (as the specification states it): Upgrade, given its command, runs
\* it exactly once and returns nil exactly when that run succeeded.  (The
\* code runs the command at line 218 and, when that succeeded, again at
\* line 223, where a command already started cannot run.)
C20_UpgradeRunsOnce ==
    (call = "Upgrade" /\ pc = "done" /\ cmd.made) =>
        /\ Count("Run(Upgrade)") = 1
        /\ result.err = Nil <=>
              (\E i \in DOMAIN log : log[i] = <<"", "Run(Upgrade)", "ok">>)

=============================================================================
